---- MODULE Spec2Model ----
(***************************************************************************)
(* Model of the ia-collection-grabber scheduling and backoff engine:       *)
(*   scheduler.py   schedule_fixed  (bounded pool, admission flag)         *)
(*   worker.py      process_identifier (per-item state machine)            *)
(*   ia_client.py   RateGate, ia_metadata, _retry_after_seconds            *)
(*   downloader.py  aria2_download, rate_limited_errtext                   *)
(*                                                                         *)
(* asyncio is cooperative: the code between two suspension points runs     *)
(* atomically, so every action below is the code from one resumption of a  *)
(* coroutine to its next suspension (or to its return).                    *)
(***************************************************************************)
EXTENDS Integers, Sequences, FiniteSets, TLC

\* ------------------------------------------------------------------ bounds
MaxIds == 2
MaxWorkers == 2
MaxTime == 1

\* ------------------------------------------------------- program constants
DefaultBackoff == 90
TransferBackoff == 90

LastAttempt == 2

Ids == {"a", "b"}

\* what the search returned: identifier lists are its prefixes
Catalog == <<"a", "b", "a", "b", "a", "b">>

\* an absent size (None); sizes are non-negative
NoSize == -1

\* no file at the destination path
NoFile == -1

\* ------------------------------------------------------------------ helpers
Max(a, b) == IF a >= b THEN a ELSE b

Min(a, b) == IF a <= b THEN a ELSE b

Positions == 1..(MaxIds + 1)

IdLists == UNION {[1..n -> Ids] : n \in 0..(MaxIds + 1)}

CatalogLists == {SubSeq(Catalog, 1, n) : n \in 0..MaxIds}

Orders(S) == {f \in [1..Cardinality(S) -> S] : \A i, j \in DOMAIN f : i # j => f[i] # f[j]}

\* dict.get(key) on a result: None when the key is absent
Get(r, key) == IF key \in DOMAIN r THEN r[key] ELSE "None"

VARIABLES
    identifiers,      \* schedule_fixed argument: the identifier list
    workers,          \* schedule_fixed argument
    sem,              \* free permits of asyncio.Semaphore(max(1, workers))
    it,               \* position the iterator `it` yields next
    running,          \* the set `running` of tasks (a task is its input position)
    done_cnt,
    disk_space_skips,
    disk_full,
    doneAtClose,      \* history: done_cnt when disk_full was set (0 before)
    schedPc,          \* "wait" in asyncio.wait | "done" returned | "raised"
    task,             \* per task: the locals of one()/process_identifier
    until,            \* RATE_GATE._until
    hiDeadline,       \* history: the latest deadline any backoff call has set
    shorter,          \* history: the last backoff call asked for an earlier
                      \* deadline than the one in force
    furthest,         \* history: the furthest time.time() + seconds any backoff
                      \* call has proposed (the initial deadline at first)
    now,              \* time.time()
    media_mode,       \* process_identifier argument: "video" | "audio" | "both"
    files,            \* meta["files"] of the item under study
    onDisk,           \* size of the file at the chosen file's destination path
    picked,           \* history: the returns of pick_best_file, in call order
    log,              \* the rows written to log_writer
    errText,          \* the argument s of rate_limited_errtext
    classified,       \* <<>>, or <<r>> once rate_limited_errtext returned r
    calls             \* history: the RateGate.backoff calls of the gate study,
                      \* each with time.time() at the call and its seconds

vars == <<identifiers, workers, sem, it, running, done_cnt, disk_space_skips,
          disk_full, doneAtClose, schedPc, task, until, hiDeadline, shorter, furthest, now,
          media_mode, files, onDisk, picked, log, errText, classified, calls>>

schedVars == <<it, running, done_cnt, disk_space_skips, disk_full, doneAtClose, schedPc>>

argVars == <<identifiers, workers>>

gateVars == <<until, hiDeadline, shorter, furthest>>

\* the item under study in the single-item and selector specifications; the
\* pool specifications abstract the metadata to MetaResponses and leave these
\* alone
itemVars == <<media_mode, files, onDisk, picked, log, errText, classified, calls>>

\* the gate is not studied on its own
NoCalls == calls = <<>>

\* no error text is being classified
NoText ==
    /\ errText = <<>>
    /\ classified = <<>>

total == Len(identifiers)

NoResult == [status |-> "none"]

\* a task object that does not exist yet
NoTask == [pc |-> "idle", attempt |-> 0, wake |-> 0, sz |-> NoSize,
           metaCalls |-> 0, xferCalls |-> 0, gateFresh |-> FALSE,
           result |-> NoResult]

\* asyncio.create_task(one(iid)): created, first step not yet run
NewTask == [NoTask EXCEPT !.pc = "created"]

Finished(t) == task[t].pc \in {"returned", "raised"}

\* process_identifier runs that have started and not yet completed
InFlight ==
    {t \in Positions :
        task[t].pc \notin {"idle", "created", "returned", "raised", "collected", "cancelled"}}

\* ------------------------------------------------- schedule_fixed, lines 57-95
SeedState_offByOne(w, n) ==
    [sem |-> Max(1, w + 1), seeded |-> Max(0, Min(w + 1, n))]

SeedState_atLeastOne(w, n) ==
    [sem |-> Max(1, w), seeded |-> Max(0, Min(Max(1, w), n))]

SeedState(w, n) ==
    [sem |-> Max(1, w), seeded |-> Max(0, Min(w, n))]

\* the state in which schedule_fixed first suspends, for the arguments given
Seeded(ids, w) ==
    /\ identifiers = ids
    /\ workers = w
    /\ sem = SeedState(workers, total).sem
    /\ running = 1..SeedState(workers, total).seeded
    /\ it = SeedState(workers, total).seeded + 1
    /\ done_cnt = 0
    /\ disk_space_skips = 0
    /\ disk_full = FALSE
    /\ doneAtClose = 0
    /\ schedPc = IF running = {} THEN "done" ELSE "wait"
    /\ task = [t \in Positions |-> IF t \in running THEN NewTask ELSE NoTask]
    /\ until = 0
    /\ hiDeadline = 0
    /\ shorter = FALSE
    /\ furthest = 0
    /\ now = 0

\* no item is under study
NoItem ==
    /\ media_mode = "both"
    /\ files = <<>>
    /\ onDisk = NoFile
    /\ picked = <<>>
    /\ log = <<>>
    /\ NoText
    /\ NoCalls

\* the least number of workers a caller passes
MinWorkers == -1

Init == \E ids \in CatalogLists, w \in MinWorkers..MaxWorkers : Seeded(ids, w) /\ NoItem

InitSched == \E ids \in IdLists, w \in MinWorkers..MaxWorkers : Seeded(ids, w) /\ NoItem

\* --------------------------------------------- schedule_fixed, lines 104-129
\* s is the scheduler's state while it iterates over `done`
IsDiskSkip(result) ==
    Get(result, "status") = "skip" /\ Get(result, "reason") = "insufficient_disk_space"

Replenish_lazy(s) ==
    IF ~s.disk_full /\ s.it < total
    THEN [s EXCEPT !.it = @ + 1, !.running = @ \cup {s.it}, !.created = @ \cup {s.it}]
    ELSE s

\* lines 122-129: start the next identifier iff admission is open
Replenish_ignoreFlag(s) ==
    IF s.it <= total
    THEN [s EXCEPT !.it = @ + 1, !.running = @ \cup {s.it}, !.created = @ \cup {s.it}]
    ELSE s

Replenish_skip(s) ==
    IF ~s.disk_full /\ s.it < total
    THEN [s EXCEPT !.it = @ + 2, !.running = @ \cup {s.it + 1},
                   !.created = @ \cup {s.it + 1}]
    ELSE s

Replenish(s) ==
    IF ~s.disk_full /\ s.it <= total
    THEN [s EXCEPT !.it = @ + 1, !.running = @ \cup {s.it}, !.created = @ \cup {s.it}]
    ELSE s

CloseAdmission_anySkip(s, result) ==
    IF Get(result, "status") = "skip"
    THEN [s EXCEPT !.disk_space_skips = @ + 1, !.disk_full = TRUE,
                   !.doneAtClose = IF s.disk_full THEN @ ELSE s.done_cnt]
    ELSE s

CloseAdmission_cancel(s, result) ==
    IF IsDiskSkip(result)
    THEN [s EXCEPT !.disk_space_skips = @ + 1, !.disk_full = TRUE, !.running = {},
                   !.doneAtClose = IF s.disk_full THEN @ ELSE s.done_cnt]
    ELSE s

CloseAdmission_noFlag(s, result) ==
    IF IsDiskSkip(result)
    THEN [s EXCEPT !.disk_space_skips = @ + 1]
    ELSE s

\* lines 110-116
CloseAdmission(s, result) ==
    IF IsDiskSkip(result)
    THEN [s EXCEPT !.disk_space_skips = @ + 1, !.disk_full = TRUE,
                   !.doneAtClose = IF s.disk_full THEN @ ELSE s.done_cnt]
    ELSE s

\* lines 106-129 for one task of `done`; task.result() re-raises
HandleOne(s, t) ==
    IF s.raised THEN s
    ELSE IF task[t].pc = "raised" THEN [s EXCEPT !.raised = TRUE]
    ELSE Replenish(CloseAdmission([s EXCEPT !.done_cnt = @ + 1, !.collected = @ \cup {t}],
                                  task[t].result))

RECURSIVE HandleDone(_, _)
HandleDone(order, s) ==
    IF order = <<>> THEN s
    ELSE HandleDone(Tail(order), HandleOne(s, Head(order)))

\* lines 98-129: asyncio.wait returns every finished task of `running`; the
\* for loop over that set runs without suspension, in the set's order.
\* An exception re-raised by task.result() leaves schedule_fixed and main
\* (main.py 177-195); asyncio.run then cancels the tasks still pending, which
\* give their permits back.
Collect ==
    /\ schedPc = "wait"
    /\ LET done == {t \in running : Finished(t)} IN
       /\ done # {}
       /\ \E order \in Orders(done) :
            LET s0 == [it |-> it, running |-> running \ done, done_cnt |-> done_cnt,
                       disk_space_skips |-> disk_space_skips, disk_full |-> disk_full,
                       doneAtClose |-> doneAtClose,
                       created |-> {}, collected |-> {}, raised |-> FALSE]
                s == HandleDone(order, s0)
            IN /\ it' = s.it
               /\ running' = s.running
               /\ done_cnt' = s.done_cnt
               /\ disk_space_skips' = s.disk_space_skips
               /\ doneAtClose' = s.doneAtClose
               /\ disk_full' = s.disk_full
               /\ task' = [t \in Positions |->
                             IF s.raised /\ t \in s.running
                             THEN [NoTask EXCEPT !.pc = "cancelled"]
                             ELSE IF t \in s.created THEN NewTask
                             ELSE IF t \in s.collected THEN [NoTask EXCEPT !.pc = "collected"]
                             ELSE task[t]]
               /\ schedPc' = IF s.raised THEN "raised"
                             ELSE IF s.running = {} THEN "done" ELSE "wait"
               /\ sem' = IF s.raised THEN SeedState(workers, total).sem ELSE sem
    /\ UNCHANGED <<argVars, gateVars, now, itemVars>>

\* lines 131-139: the closing message of schedule_fixed
Report ==
    IF disk_full THEN "stopped_early" ELSE "all_items_processed"

\* ------------------------------------------------ RateGate, ia_client.py
\* RateGate.backoff, lines 80-83.  The lock is taken and released without a
\* suspension in between, so the update is one atomic step.
Backoff_overwrite(u, t, seconds) == t + seconds

Backoff_keepPending(u, t, seconds) == IF u > t THEN u ELSE t + seconds

Backoff(u, t, seconds) == Max(u, t + seconds)

GateDelay_none(u, t) == 0

\* RateGate.wait_if_needed, line 64
GateDelay(u, t) == u - t

\* _retry_after_seconds, ia_client.py 106-123: the Retry-After header value,
\* "None" when the header is absent
Headers == {"None", "soon", "1"}

IsNumeral(h) == h \in {"0", "1", "2"}

IntOf(h) == CASE h = "0" -> 0 [] h = "1" -> 1 [] h = "2" -> 2

RetryAfterSeconds(h, default) ==
    IF h = "None" \/ h = "" THEN default
    ELSE IF IsNumeral(h) THEN IntOf(h)
    ELSE default

HttpCodes == {429, 503, 404}

\* the HTTP errors of a metadata request, and whether the writerow of the
\* except clause raises
HttpErrors == [code : HttpCodes, header : Headers, logRaises : BOOLEAN]

Throttled(code) == code \in {429, 503}

\* --------------------------------------------- downloader.py, lines 51-64
Lower(ch) ==
    CASE ch = "A" -> "a" [] ch = "B" -> "b" [] ch = "C" -> "c" [] ch = "D" -> "d"
      [] ch = "E" -> "e" [] ch = "F" -> "f" [] ch = "G" -> "g" [] ch = "H" -> "h"
      [] ch = "I" -> "i" [] ch = "J" -> "j" [] ch = "K" -> "k" [] ch = "L" -> "l"
      [] ch = "M" -> "m" [] ch = "N" -> "n" [] ch = "O" -> "o" [] ch = "P" -> "p"
      [] ch = "Q" -> "q" [] ch = "R" -> "r" [] ch = "S" -> "s" [] ch = "T" -> "t"
      [] ch = "U" -> "u" [] ch = "V" -> "v" [] ch = "W" -> "w" [] ch = "X" -> "x"
      [] ch = "Y" -> "y" [] ch = "Z" -> "z"
      [] OTHER -> ch

LowerText(s) == [i \in DOMAIN s |-> Lower(s[i])]

Contains(s, sub) ==
    \E i \in 1..(Len(s) - Len(sub) + 1) : SubSeq(s, i, i + Len(sub) - 1) = sub

NoneBack == -1

RateLimitedErrtext_caseSensitive(s) ==
    IF Contains(s, <<"4", "2", "9">>)
       \/ Contains(s, <<"t", "o", "o", " ", "m", "a", "n", "y", " ", "r", "e", "q", "u", "e", "s", "t", "s">>)
    THEN TransferBackoff
    ELSE IF Contains(s, <<"5", "0", "3">>)
            \/ Contains(s, <<"s", "l", "o", "w", "d", "o", "w", "n">>)
            \/ Contains(s, <<"s", "e", "r", "v", "i", "c", "e", " ", "t", "e", "m", "p", "o", "r", "a", "r", "i", "l", "y", " ", "u", "n", "a", "v", "a", "i", "l", "a", "b", "l", "e">>)
    THEN TransferBackoff
    ELSE NoneBack

RateLimitedErrtext(s) ==
    LET text == LowerText(s) IN
    IF Contains(text, <<"4", "2", "9">>)
       \/ Contains(text, <<"t", "o", "o", " ", "m", "a", "n", "y", " ", "r", "e", "q", "u", "e", "s", "t", "s">>)
    THEN TransferBackoff
    ELSE IF Contains(text, <<"5", "0", "3">>)
            \/ Contains(text, <<"s", "l", "o", "w", "d", "o", "w", "n">>)
            \/ Contains(text, <<"s", "e", "r", "v", "i", "c", "e", " ", "t", "e", "m", "p", "o", "r", "a", "r", "i", "l", "y", " ", "u", "n", "a", "v", "a", "i", "l", "a", "b", "l", "e">>)
    THEN TransferBackoff
    ELSE NoneBack

\* error texts aria2 may report
ErrTexts ==
    {<<"H", "T", "T", "P", " ", "4", "2", "9">>,
     <<"S", "l", "o", "w", "D", "o", "w", "n">>,
     <<"t", "i", "m", "e", "o", "u", "t">>,
     <<>>}

\* ------------------------------------------ file_selector.py, lines 151-192
LocalAlreadyOk_exists(localSize, expected_size) == localSize # NoFile

LocalAlreadyOk(localSize, expected_size) ==
    IF localSize = NoFile THEN FALSE
    ELSE IF expected_size = NoSize THEN FALSE
    ELSE localSize = expected_size

\* ---------------------------------------------------- config.py, lines 27-62
VIDEO_EXTS ==
    {<<".", "m", "p", "4">>,
     <<".", "m", "k", "v">>,
     <<".", "m", "o", "v">>,
     <<".", "a", "v", "i">>,
     <<".", "w", "m", "v">>,
     <<".", "m", "p", "g">>,
     <<".", "m", "p", "e", "g">>,
     <<".", "m", "4", "v">>,
     <<".", "t", "s">>,
     <<".", "f", "l", "v">>,
     <<".", "3", "g", "p">>,
     <<".", "d", "i", "v", "x">>,
     <<".", "w", "e", "b", "m">>}

AUDIO_PREFS ==
    <<<<".", "w", "a", "v">>,
     <<".", "f", "l", "a", "c">>,
     <<".", "m", "p", "3">>,
     <<".", "o", "g", "g">>>>

AUDIO_EXTS ==
    {AUDIO_PREFS[k] : k \in DOMAIN AUDIO_PREFS}
    \cup {<<".", "a", "i", "f", "f">>,
     <<".", "a", "a", "c">>,
     <<".", "m", "4", "a">>,
     <<".", "w", "m", "a">>,
     <<".", "o", "g", "a">>}

\* ------------------------------------------- file_selector.py, lines 30-145
MaxFiles == 2

MaxCalls == 2

Modes == {"video", "audio", "both"}

\* the key "name" is absent (f.get("name") is None)
NoName == <<"None">>

\* file names of the metadata: m.mp4 k.MKV w.wav f.flac p.mp3 a.aac t.TXT
\* x.pdf d/ and the empty name
FileNames ==
    {<<"m", ".", "m", "p", "4">>,
     <<"k", ".", "M", "K", "V">>,
     <<"w", ".", "w", "a", "v">>,
     <<"f", ".", "f", "l", "a", "c">>,
     <<"p", ".", "m", "p", "3">>,
     <<"a", ".", "a", "a", "c">>,
     <<"t", ".", "T", "X", "T">>,
     <<"x", ".", "p", "d", "f">>,
     <<"d", "/">>,
     <<>>}

\* the value of the key "size": absent, or the text of a number
RawSizes == {"None", "abc", "7", "8"}

FileEntries == [name : FileNames \cup {NoName}, size : RawSizes]

FileLists == UNION {[1..n -> FileEntries] : n \in 0..MaxFiles}

\* utils.py _size_int: int(x), None when int() raises
SizeInt(x) ==
    CASE x = "0" -> 0 [] x = "7" -> 7 [] x = "8" -> 8 [] OTHER -> NoSize

\* line 66: f.get("name") or ""
NameOf(f) == IF f.name = NoName THEN <<>> ELSE f.name

\* the last position of ch in s, 0 if there is none (str.rfind)
LastIndex(s, ch) ==
    IF \E i \in DOMAIN s : s[i] = ch
    THEN CHOOSE i \in DOMAIN s : s[i] = ch /\ \A j \in DOMAIN s : s[j] = ch => j <= i
    ELSE 0

\* Path(name).suffix: in the last path component, the text from the last dot
\* on, unless that dot is the first or the last character
Suffix(name) ==
    LET base == SubSeq(name, LastIndex(name, "/") + 1, Len(name))
        i == LastIndex(base, ".")
    IN IF 1 < i /\ i < Len(base) THEN SubSeq(base, i, Len(base)) ELSE <<>>

\* line 77: extensions that are never media
DenyExts ==
    {<<".", "t", "x", "t">>,
     <<".", "x", "m", "l">>,
     <<".", "j", "s", "o", "n">>,
     <<".", "g", "z">>,
     <<".", "z", "i", "p">>,
     <<".", "s", "h", "a", "1">>,
     <<".", "m", "d", "5">>,
     <<".", "s", "r", "t">>,
     <<".", "v", "t", "t">>,
     <<".", "n", "f", "o">>}

\* line 73: ext = Path(name).suffix.lower(), for every name
ExtOf ==
    [n \in FileNames \cup {NoName} |-> LowerText(Suffix(NameOf([name |-> n])))]

IsCandidate_caseSensitive(f) ==
    /\ NameOf(f) # <<>>
    /\ NameOf(f)[Len(NameOf(f))] # "/"
    /\ Suffix(NameOf(f)) \notin DenyExts

\* lines 66-78: the entries the filter lets through
IsCandidate(f) ==
    /\ NameOf(f) # <<>>
    /\ NameOf(f)[Len(NameOf(f))] # "/"
    /\ ExtOf[f.name] \notin DenyExts

Cand_coerced(f) ==
    [name |-> NameOf(f), ext |-> ExtOf[f.name],
     size |-> IF SizeInt(f.size) = NoSize THEN 0 ELSE SizeInt(f.size)]

\* lines 81-89
Cand(f) ==
    [name |-> NameOf(f), ext |-> ExtOf[f.name], size |-> SizeInt(f.size)]

\* lines 64-90: cands, in the order of the input
Candidates(fs) ==
    LET kept == SelectSeq(fs, IsCandidate) IN [i \in DOMAIN kept |-> Cand(kept[i])]

\* key=lambda c: c["size"] or 0
SizeKey(c) == IF c.size = NoSize THEN 0 ELSE c.size

MaxBySize_last(cs) ==
    cs[CHOOSE i \in DOMAIN cs :
          \A j \in DOMAIN cs : /\ SizeKey(cs[j]) <= SizeKey(cs[i])
                               /\ j > i => SizeKey(cs[j]) < SizeKey(cs[i])]

\* max(cs, key=...): the first of the elements with the largest key
MaxBySize(cs) ==
    cs[CHOOSE i \in DOMAIN cs :
          \A j \in DOMAIN cs : /\ SizeKey(cs[j]) <= SizeKey(cs[i])
                               /\ j < i => SizeKey(cs[j]) < SizeKey(cs[i])]

\* a return value (best, reason): best is <<>> for None
Chosen(c) == [best |-> <<c>>, reason |-> "None"]

Rejected(reason) == [best |-> <<>>, reason |-> reason]

WithExt(cs, ext) == SelectSeq(cs, LAMBDA c : c.ext = ext)

FirstPref_bySize(audios) == 0

\* lines 118-124: the first preferred extension some audio candidate has, 0 if
\* none has one
FirstPref(audios) ==
    IF \E k \in DOMAIN AUDIO_PREFS : WithExt(audios, AUDIO_PREFS[k]) # <<>>
    THEN CHOOSE k \in DOMAIN AUDIO_PREFS :
            /\ WithExt(audios, AUDIO_PREFS[k]) # <<>>
            /\ \A l \in 1..(k - 1) : WithExt(audios, AUDIO_PREFS[l]) = <<>>
    ELSE 0

\* lines 116-127, and again 136-142
AudioRule(audios) ==
    IF FirstPref(audios) # 0
    THEN Chosen(MaxBySize(WithExt(audios, AUDIO_PREFS[FirstPref(audios)])))
    ELSE Chosen(MaxBySize(audios))

PickBestFile_audioFirst(fs, mode) ==
    LET cands == Candidates(fs)
        videos == SelectSeq(cands, LAMBDA c : c.ext \in VIDEO_EXTS)
        audios == SelectSeq(cands, LAMBDA c : c.ext \in AUDIO_EXTS)
    IN IF cands = <<>> THEN Rejected("no_candidate_files")
       ELSE IF mode = "video"
       THEN IF videos = <<>> THEN Rejected("filtered_out_no_video")
            ELSE Chosen(MaxBySize(videos))
       ELSE IF mode = "audio"
       THEN IF audios = <<>> THEN Rejected("filtered_out_no_audio")
            ELSE AudioRule(audios)
       ELSE IF audios # <<>> THEN AudioRule(audios)
       ELSE IF videos # <<>> THEN Chosen(MaxBySize(videos))
       ELSE Rejected("no_video_or_audio")

PickBestFile(fs, mode) ==
    LET cands == Candidates(fs)
        videos == SelectSeq(cands, LAMBDA c : c.ext \in VIDEO_EXTS)
        audios == SelectSeq(cands, LAMBDA c : c.ext \in AUDIO_EXTS)
    IN IF cands = <<>> THEN Rejected("no_candidate_files")
       ELSE IF mode = "video"
       THEN IF videos = <<>> THEN Rejected("filtered_out_no_video")
            ELSE Chosen(MaxBySize(videos))
       ELSE IF mode = "audio"
       THEN IF audios = <<>> THEN Rejected("filtered_out_no_audio")
            ELSE AudioRule(audios)
       ELSE IF videos # <<>> THEN Chosen(MaxBySize(videos))
       ELSE IF audios # <<>> THEN AudioRule(audios)
       ELSE Rejected("no_video_or_audio")

\* -------------------------------------------- process_identifier, worker.py
\* c = [tr |-> the task's locals, until |-> RATE_GATE._until, hi |-> hiDeadline,
\*      shorter |-> shorter]
\* threaded through the code that runs between two suspension points.
CallCap == 3

\* a row of the log: [identifier, kind, reason, page, url]; the identifier and
\* the page are those of the run, url is "" or the file's download URL
Row(kind, reason, url) == [kind |-> kind, reason |-> reason, url |-> url]

\* log_writer.writerow returned
WriteRow(c, kind, reason, url) == [c EXCEPT !.rows = Append(@, Row(kind, reason, url))]

\* f"metadata_http_{e.code}", line 191
HttpReason(code) ==
    CASE code = 429 -> "metadata_http_429"
      [] code = 503 -> "metadata_http_503"
      [] code = 404 -> "metadata_http_404"

\* the coroutine is over: its locals are gone, its outcome stays in the task
Return(c, status, bytes) ==
    [c EXCEPT !.tr = [NoTask EXCEPT !.pc = "returned",
                                    !.result = [status |-> status, bytes |-> bytes]]]

\* an exception leaves process_identifier
Propagate(c) == [c EXCEPT !.tr = [NoTask EXCEPT !.pc = "raised"]]

DoBackoff(c, seconds) ==
    [c EXCEPT !.until = Backoff(c.until, now, seconds),
              !.hi = Max(c.hi, Backoff(c.until, now, seconds)),
              !.shorter = (now + seconds < c.until),
              !.far = Max(c.far, now + seconds),
              !.backs = Append(@, [at |-> now, seconds |-> seconds])]

\* ia_metadata line 232: the HTTP request starts
StartFetch(c) ==
    [c EXCEPT !.tr.pc = "fetch", !.tr.metaCalls = Min(@ + 1, CallCap)]

\* wait_if_needed lines 64-69: asyncio.sleep(delay) is due at now + delay
Sleep(c, pc) ==
    [c EXCEPT !.tr.pc = pc, !.tr.wake = now + GateDelay(c.until, now)]

\* wait_if_needed returned
Passed(c) == [c EXCEPT !.tr.gateFresh = TRUE, !.tr.wake = 0]

\* ia_metadata lines 207-232: wait_if_needed, then the request
EnterMetadata(c) ==
    IF GateDelay(c.until, now) > 0
    THEN Sleep(c, "meta_gate")
    ELSE StartFetch(Passed(c))

\* worker.py lines 94-98: wait_if_needed, then ia_metadata
EnterAttempt(c) ==
    IF GateDelay(c.until, now) > 0
    THEN Sleep(c, "gate")
    ELSE EnterMetadata(Passed(c))

NextAttempt_stuck(attempt) == attempt

\* the loop variable of `for attempt in (1, 2)`, line 91
NextAttempt(attempt) == attempt + 1

\* `continue`: the next attempt, or line 201 when the loop is exhausted
Continue(c) ==
    IF c.tr.attempt < LastAttempt
    THEN EnterAttempt([c EXCEPT !.tr.attempt = NextAttempt(@)])
    ELSE Return(c, "fail", 0)

\* lines 194-198: except Exception; its writerow may itself raise
GenericHandler(c, logRaises) ==
    IF logRaises THEN Propagate(c)
    ELSE Return(WriteRow(c, "FAIL", "exception", ""), "fail", 0)

\* lines 182-192: except urllib.error.HTTPError
HttpHandler(c, code, header, logRaises) ==
    IF Throttled(code) /\ c.tr.attempt = 1
    THEN Continue(DoBackoff(c, RetryAfterSeconds(header, DefaultBackoff)))
    ELSE IF logRaises THEN Propagate(c)
    ELSE Return(WriteRow(c, "FAIL", HttpReason(code), ""), "fail", 0)

MetadataHttpError_anyCode(c, code, header, logRaises) ==
    HttpHandler(DoBackoff(c, RetryAfterSeconds(header, DefaultBackoff)),
                code, header, logRaises)

MetadataHttpError_reraiseOnly(c, code, header, logRaises) ==
    HttpHandler(c, code, header, logRaises)

\* ia_metadata lines 237-251: except HTTPError, backoff on 429/503, re-raise
MetadataHttpError(c, code, header, logRaises) ==
    HttpHandler(IF Throttled(code)
                THEN DoBackoff(c, RetryAfterSeconds(header, DefaultBackoff))
                ELSE c,
                code, header, logRaises)

\* a log_writer.writerow in the try body, followed by a return
LogAndReturn(c, status, row, bodyLogRaises, logRaises) ==
    IF bodyLogRaises THEN GenericHandler(c, logRaises)
    ELSE Return(WriteRow(c, row.kind, row.reason, row.url), status, 0)

\* the metadata responses: m.shape is "malformed" (not a dict of the expected
\* form: the try body raises), "no_files", "no_best" (pick_best_file returns
\* no candidate) or "best" with the candidate's size
MetaResponses ==
    {[shape |-> "malformed", size |-> NoSize, reason |-> "None"],
     [shape |-> "no_files", size |-> NoSize, reason |-> "None"],
     [shape |-> "no_best", size |-> NoSize, reason |-> "no_candidate_files"],
     [shape |-> "best", size |-> NoSize, reason |-> "None"],
     [shape |-> "best", size |-> 7, reason |-> "None"]}

LocalSizes == {NoFile, 7, 8}

\* which log_writer.writerow calls of one step raise: <<the one in the try
\* body, the one in the except clause>>
LogFaults == {<<FALSE, FALSE>>, <<TRUE, FALSE>>, <<TRUE, TRUE>>}

\* the environment of the lines 101-150: the response, the file found at the
\* destination, the log sink
ProceedInputs == [m : MetaResponses, localSize : LocalSizes, log : LogFaults]

Proceed_noLocalCheck(c, m, localSize, bodyLogRaises, logRaises) ==
    IF m.shape = "malformed" THEN GenericHandler(c, logRaises)
    ELSE IF m.shape = "no_files"
    THEN LogAndReturn(c, "skip", Row("SKIP", "no_files_in_metadata", ""),
                      bodyLogRaises, logRaises)
    ELSE IF m.shape = "no_best"
    THEN LogAndReturn(c, "skip",
                      Row("SKIP", IF m.reason = "None" THEN "selection_failed" ELSE m.reason, ""),
                      bodyLogRaises, logRaises)
    ELSE [c EXCEPT !.tr.pc = "transfer", !.tr.sz = m.size,
                   !.tr.xferCalls = Min(@ + 1, CallCap)]

\* lines 101-150: from the metadata to the transfer
Proceed(c, m, localSize, bodyLogRaises, logRaises) ==
    IF m.shape = "malformed" THEN GenericHandler(c, logRaises)
    ELSE IF m.shape = "no_files"
    THEN LogAndReturn(c, "skip", Row("SKIP", "no_files_in_metadata", ""),
                      bodyLogRaises, logRaises)
    ELSE IF m.shape = "no_best"
    THEN LogAndReturn(c, "skip",
                      Row("SKIP", IF m.reason = "None" THEN "selection_failed" ELSE m.reason, ""),
                      bodyLogRaises, logRaises)
    ELSE IF LocalAlreadyOk(localSize, m.size) THEN Return(c, "skip", 0)
    ELSE [c EXCEPT !.tr.pc = "transfer", !.tr.sz = m.size,
                   !.tr.xferCalls = Min(@ + 1, CallCap)]

\* the failures of a transfer: the error text and the log sink
TransferFailures == [err : ErrTexts, log : LogFaults]

\* line 163: rate_limited_errtext(err), for every error text
BackOf == [err \in ErrTexts |-> RateLimitedErrtext(err)]

\* f"aria2_error: {err[:500]}", line 175
AriaReason(err) ==
    CASE err = <<"H", "T", "T", "P", " ", "4", "2", "9">> -> "aria2_error: HTTP 429"
      [] err = <<"S", "l", "o", "w", "D", "o", "w", "n">> -> "aria2_error: SlowDown"
      [] err = <<"t", "i", "m", "e", "o", "u", "t">> -> "aria2_error: timeout"
      [] err = <<>> -> "aria2_error: "

\* the rows of a failed transfer whose error text names a throttling indicator
ThrottledReasons == {AriaReason(err) : err \in {e \in ErrTexts : BackOf[e] # NoneBack}}

AfterTransfer_retransfer(c, ok, err, bodyLogRaises, logRaises) ==
    IF ok THEN Return(c, "ok", IF c.tr.sz = NoSize THEN 0 ELSE c.tr.sz)
    ELSE LET back == BackOf[err] IN
         IF back # NoneBack /\ back # 0 /\ c.tr.attempt = 1
         THEN [DoBackoff(c, back) EXCEPT !.tr.attempt = NextAttempt(@),
                                         !.tr.xferCalls = Min(@ + 1, CallCap)]
         ELSE LogAndReturn(c, "fail", Row("FAIL", AriaReason(err), "file"),
                           bodyLogRaises, logRaises)

\* lines 153-180: after aria2_download returned (ok, err)
AfterTransfer(c, ok, err, bodyLogRaises, logRaises) ==
    IF ok THEN Return(c, "ok", IF c.tr.sz = NoSize THEN 0 ELSE c.tr.sz)
    ELSE LET back == BackOf[err] IN
         IF back # NoneBack /\ back # 0 /\ c.tr.attempt = 1
         THEN Continue(DoBackoff(c, back))
         ELSE LogAndReturn(c, "fail", Row("FAIL", AriaReason(err), "file"),
                           bodyLogRaises, logRaises)

\* what the code does after a suspension, for every behaviour of the
\* collaborators: ia_client.py 232-253 with worker.py 98-198, a response, an
\* HTTPError, or any other failure (CLI fallback)
FetchOutcomes(c) ==
    {Proceed(c, i.m, i.localSize, i.log[1], i.log[2]) : i \in ProceedInputs}
    \cup {MetadataHttpError(c, e.code, e.header, e.logRaises) : e \in HttpErrors}
    \cup {[c EXCEPT !.tr.pc = "cli"]}

\* ia_client.py 260-274: the CLI's JSON, or RuntimeError
CliOutcomes(c) ==
    {Proceed(c, i.m, i.localSize, i.log[1], i.log[2]) : i \in ProceedInputs}
    \cup {GenericHandler(c, b) : b \in BOOLEAN}

\* worker.py 150-180: (True, ""), (False, err), or an exception of aria2_download
TransferOutcomes(c) ==
    {AfterTransfer(c, TRUE, <<>>, FALSE, FALSE)}
    \cup {AfterTransfer(c, FALSE, f.err, f.log[1], f.log[2]) : f \in TransferFailures}
    \cup {GenericHandler(c, b) : b \in BOOLEAN}

\* rows: the rows this step writes to log_writer; picks: the returns of
\* pick_best_file in this step; backs: the RateGate.backoff calls of this step
Ctx(t) == [tr |-> task[t], until |-> until, hi |-> hiDeadline, shorter |-> shorter,
           far |-> furthest, rows |-> <<>>, picks |-> <<>>, backs |-> <<>>]

\* the task resumed from a suspension that is not the gate's sleep
Resumed(t) == [Ctx(t) EXCEPT !.tr.gateFresh = FALSE]

\* the step of task t takes effect; leaving `async with sem` releases the
\* permit
CommitRun(t, c) ==
    /\ task' = [task EXCEPT ![t] = c.tr]
    /\ until' = c.until
    /\ hiDeadline' = c.hi
    /\ shorter' = c.shorter
    /\ furthest' = c.far
    /\ sem' = IF c.tr.pc \in {"returned", "raised"} THEN sem + 1 ELSE sem
    /\ UNCHANGED <<argVars, schedVars, now>>

\* commit the step of task t in the pool specification
Commit(t, c) == CommitRun(t, c) /\ UNCHANGED itemVars

\* scheduler.py 77-79 and worker.py 76-87: take a permit, start the jitter sleep
Begin(t) ==
    /\ schedPc = "wait"
    /\ task[t].pc = "created"
    /\ sem > 0
    /\ sem' = sem - 1
    /\ task' = [task EXCEPT ![t].pc = "jitter"]
    /\ UNCHANGED <<argVars, schedVars, gateVars, now, itemVars>>

\* worker.py 87-98: the jitter sleep is over, attempt 1 begins
JitterDone(t) ==
    /\ schedPc = "wait"
    /\ task[t].pc = "jitter"
    /\ Commit(t, EnterAttempt([Resumed(t) EXCEPT !.tr.attempt = 1]))

\* ia_client.py 69 under worker.py 94: the sleep of wait_if_needed is over
GateWake(t) ==
    /\ schedPc = "wait"
    /\ task[t].pc = "gate"
    /\ now >= task[t].wake
    /\ Commit(t, EnterMetadata(Passed(Ctx(t))))

\* ia_client.py 69 under ia_metadata line 207
MetaGateWake(t) ==
    /\ schedPc = "wait"
    /\ task[t].pc = "meta_gate"
    /\ now >= task[t].wake
    /\ Commit(t, StartFetch(Passed(Ctx(t))))

\* ia_client.py 232-253: the HTTP request finished
FetchDone(t) ==
    /\ schedPc = "wait"
    /\ task[t].pc = "fetch"
    /\ \E c \in FetchOutcomes(Resumed(t)) : Commit(t, c)

\* ia_client.py 260-274: the CLI fallback finished
CliDone(t) ==
    /\ schedPc = "wait"
    /\ task[t].pc = "cli"
    /\ \E c \in CliOutcomes(Resumed(t)) : Commit(t, c)

\* worker.py 150-180: aria2_download finished (or raised)
TransferDone(t) ==
    /\ schedPc = "wait"
    /\ task[t].pc = "transfer"
    /\ \E c \in TransferOutcomes(Resumed(t)) : Commit(t, c)

\* the clock
Tick ==
    /\ now < MaxTime
    /\ now' = now + 1
    /\ UNCHANGED <<argVars, schedVars, sem, task, gateVars, itemVars>>

Sleepers == {t \in Positions : task[t].pc \in {"gate", "meta_gate"} /\ task[t].wake > now}

\* time passes until the next sleeper is due
Elapse ==
    /\ Sleepers # {}
    /\ \E t \in Sleepers :
         /\ \A o \in Sleepers : task[t].wake <= task[o].wake
         /\ now' = task[t].wake
    /\ UNCHANGED <<argVars, schedVars, sem, task, gateVars, itemVars>>

Next ==
    \/ Collect
    \/ \E t \in Positions : Begin(t)
    \/ \E t \in Positions : JitterDone(t)
    \/ \E t \in Positions : GateWake(t)
    \/ \E t \in Positions : MetaGateWake(t)
    \/ \E t \in Positions : FetchDone(t)
    \/ \E t \in Positions : CliDone(t)
    \/ \E t \in Positions : TransferDone(t)
    \/ Tick
    \/ Elapse

Spec == Init /\ [][Next]_vars

\* ------------------------------------------- a collaborator result (spec 3)
\* ProcessingResult values a task may hand to the scheduler
StubResults ==
    {[status |-> "ok", bytes |-> 1],
     [status |-> "fail", bytes |-> 0],
     [status |-> "skip", bytes |-> 0],
     [status |-> "skip", bytes |-> 0, reason |-> "insufficient_disk_space"]}

\* one(): async with sem, then the item processor starts
StubBegin(t) ==
    /\ schedPc = "wait"
    /\ task[t].pc = "created"
    /\ sem > 0
    /\ sem' = sem - 1
    /\ task' = [task EXCEPT ![t].pc = "stub"]
    /\ UNCHANGED <<argVars, schedVars, gateVars, now, itemVars>>

StubReturn(t) ==
    /\ schedPc = "wait"
    /\ task[t].pc = "stub"
    /\ \E r \in StubResults :
         task' = [task EXCEPT ![t].pc = "returned", ![t].result = r]
    /\ sem' = sem + 1
    /\ UNCHANGED <<argVars, schedVars, gateVars, now, itemVars>>

NextSched ==
    \/ Collect
    \/ \E t \in Positions : StubBegin(t)
    \/ \E t \in Positions : StubReturn(t)

SpecSched == InitSched /\ [][NextSched]_vars

FairSpecSched ==
    /\ SpecSched
    /\ WF_vars(Collect)
    /\ \A t \in Positions : WF_vars(StubBegin(t)) /\ WF_vars(StubReturn(t))

\* ------------------------------------------- one item, with its file list
\* One process_identifier run for an item whose metadata holds `files`, the
\* destination holding a file of size onDisk (or none).  With a single run
\* nobody extends the deadline while it sleeps, so the sleep inside
\* ia_metadata never happens.
ItemNames == {<<"m", ".", "m", "p", "4">>, <<"w", ".", "w", "a", "v">>, <<"t", ".", "T", "X", "T">>}

ItemSizes == {"None", "7"}

ItemFileLists == UNION {[1..n -> [name : ItemNames, size : ItemSizes]] : n \in 0..1}

InitItem ==
    /\ Seeded(<<"a">>, 1)
    /\ media_mode \in Modes
    /\ files \in ItemFileLists
    /\ onDisk \in LocalSizes
    /\ picked = <<>>
    /\ log = <<>>
    /\ NoText
    /\ NoCalls

\* worker.py 101-130: what the response means to process_identifier
MetaOf(fs, p) ==
    IF fs = <<>> THEN [shape |-> "no_files", size |-> NoSize, reason |-> "None"]
    ELSE IF p.best = <<>> THEN [shape |-> "no_best", size |-> NoSize, reason |-> p.reason]
    ELSE [shape |-> "best", size |-> p.best[1].size, reason |-> "None"]

\* worker.py 101-150 for the item's file list
ItemProceed(c, bodyLogRaises, logRaises) ==
    LET p == PickBestFile(files, media_mode)
        r == Proceed(c, MetaOf(files, p), onDisk, bodyLogRaises, logRaises)
    IN IF files = <<>> THEN r ELSE [r EXCEPT !.picks = Append(@, p)]

\* the metadata arrived (over HTTP or from the CLI), or the request failed
ItemFetchOutcomes(c) ==
    {ItemProceed(c, lf[1], lf[2]) : lf \in LogFaults}
    \cup {MetadataHttpError(c, e.code, e.header, e.logRaises) : e \in HttpErrors}
    \cup {[c EXCEPT !.tr.pc = "cli"]}

ItemCliOutcomes(c) ==
    {ItemProceed(c, lf[1], lf[2]) : lf \in LogFaults}
    \cup {GenericHandler(c, b) : b \in BOOLEAN}

\* commit the step of task t: the rows go to the log, disk is what the
\* destination holds afterwards
ItemCommit(t, c, disk) ==
    /\ CommitRun(t, c)
    /\ picked' = picked \o c.picks
    /\ log' = log \o c.rows
    /\ onDisk' = disk
    /\ UNCHANGED <<media_mode, files, errText, classified, calls>>

ItemFetchDone(t) ==
    /\ schedPc = "wait"
    /\ task[t].pc = "fetch"
    /\ \E c \in ItemFetchOutcomes(Resumed(t)) : ItemCommit(t, c, onDisk)

ItemCliDone(t) ==
    /\ schedPc = "wait"
    /\ task[t].pc = "cli"
    /\ \E c \in ItemCliOutcomes(Resumed(t)) : ItemCommit(t, c, onDisk)

\* aria2c leaves a complete file, a partial one or none
ItemTransferDone(t) ==
    /\ schedPc = "wait"
    /\ task[t].pc = "transfer"
    /\ \E c \in TransferOutcomes(Resumed(t)), disk \in LocalSizes : ItemCommit(t, c, disk)

NextItem ==
    \/ Collect
    \/ \E t \in Positions : Begin(t)
    \/ \E t \in Positions : JitterDone(t)
    \/ \E t \in Positions : GateWake(t)
    \/ \E t \in Positions : ItemFetchDone(t)
    \/ \E t \in Positions : ItemCliDone(t)
    \/ \E t \in Positions : ItemTransferDone(t)
    \/ Tick
    \/ Elapse

SpecItem == InitItem /\ [][NextItem]_vars

\* every collaborator call returns: each suspended coroutine is resumed, each
\* sleep ends, and the scheduler's asyncio.wait returns once a task is done
FairSpecItem ==
    /\ SpecItem
    /\ WF_vars(Collect)
    /\ WF_vars(Elapse)
    /\ \A t \in Positions :
          /\ WF_vars(Begin(t))
          /\ WF_vars(JitterDone(t))
          /\ WF_vars(GateWake(t))
          /\ WF_vars(ItemFetchDone(t))
          /\ WF_vars(ItemCliDone(t))
          /\ WF_vars(ItemTransferDone(t))

\* ------------------------------------------ rate_limited_errtext on its own
MaxFragments == 2

\* pieces of aria2 error messages: the indicators as aria2 and servers spell
\* them, parts of them, and text that names none
Fragments ==
    {<<"4", "2", "9">>,
     <<"T", "o", "o", " ", "M", "a", "n", "y", " ", "R", "e", "q", "u", "e", "s", "t", "s">>,
     <<"5", "0", "3">>,
     <<"S", "l", "o", "w", "D", "o", "w", "n">>,
     <<"S", "e", "r", "v", "i", "c", "e", " ", "T", "e", "m", "p", "o", "r", "a", "r", "i", "l", "y", " ", "U", "n", "a", "v", "a", "i", "l", "a", "b", "l", "e">>,
     <<"4", "2">>,
     <<"9">>,
     <<"5", "0">>,
     <<"3">>,
     <<"s", "l", "o", "w">>,
     <<"D", "O", "W", "N">>,
     <<"t", "o", "o", " ", "m", "a", "n", "y", " ">>,
     <<"R", "E", "Q", "U", "E", "S", "T", "S">>,
     <<"t", "i", "m", "e", "o", "u", "t">>,
     <<" ">>}

RECURSIVE Joined(_)
\* the messages made of n fragments
Joined(n) ==
    IF n = 0 THEN {<<>>}
    ELSE {m \o f : m \in Joined(n - 1), f \in Fragments}

Messages == UNION {Joined(n) : n \in 0..MaxFragments}

\* an error message; no pool is running
InitClassify ==
    /\ Seeded(<<>>, 0)
    /\ media_mode = "both"
    /\ files = <<>>
    /\ onDisk = NoFile
    /\ picked = <<>>
    /\ log = <<>>
    /\ errText \in Messages
    /\ classified = <<>>
    /\ NoCalls

\* one call rate_limited_errtext(s)
Classify ==
    /\ classified = <<>>
    /\ classified' = <<RateLimitedErrtext(errText)>>
    /\ UNCHANGED <<argVars, schedVars, sem, task, gateVars, now, media_mode, files,
                   onDisk, picked, log, errText, calls>>

NextClassify == Classify

SpecClassify == InitClassify /\ [][NextClassify]_vars

\* ------------------------------------------------- RateGate on its own
\* Callers invoke RATE_GATE.backoff at times of their choosing; no pool is
\* running.
MaxClock == 3

MaxBackoffs == 2

\* the seconds the callers pass: int(Retry-After) or the default
GateSeconds == {1, 2, DefaultBackoff}

InitGate == Seeded(<<>>, 0) /\ NoItem

\* one call RATE_GATE.backoff(seconds)
GateBackoff ==
    /\ Len(calls) < MaxBackoffs
    /\ \E seconds \in GateSeconds :
         LET c == DoBackoff(Ctx(1), seconds) IN
         /\ until' = c.until
         /\ hiDeadline' = c.hi
         /\ shorter' = c.shorter
         /\ furthest' = c.far
         /\ calls' = calls \o c.backs
    /\ UNCHANGED <<argVars, schedVars, sem, task, now, media_mode, files, onDisk,
                   picked, log, errText, classified>>

\* time.time() advances between two calls
GateTick ==
    /\ now < MaxClock
    /\ now' = now + 1
    /\ UNCHANGED <<argVars, schedVars, sem, task, gateVars, itemVars>>

NextGate == GateBackoff \/ GateTick

SpecGate == InitGate /\ [][NextGate]_vars

\* -------------------------------------------------- the selector on its own
\* a file list and a mode; no pool is running
InitSelect ==
    /\ Seeded(<<>>, 0)
    /\ media_mode \in Modes
    /\ files \in FileLists
    /\ onDisk = NoFile
    /\ picked = <<>>
    /\ log = <<>>
    /\ NoText
    /\ NoCalls

Pick_consumed ==
    /\ Len(picked) < MaxCalls
    /\ picked' = Append(picked, PickBestFile(IF picked = <<>> THEN files ELSE <<>>, media_mode))
    /\ UNCHANGED <<argVars, schedVars, sem, task, gateVars, now, media_mode, files, onDisk, log, errText, classified, calls>>

\* one call pick_best_file(files, media_mode)
Pick ==
    /\ Len(picked) < MaxCalls
    /\ picked' = Append(picked, PickBestFile(files, media_mode))
    /\ UNCHANGED <<argVars, schedVars, sem, task, gateVars, now, media_mode, files, onDisk, log, errText, classified, calls>>

NextSelect == Pick

SpecSelect == InitSelect /\ [][NextSelect]_vars

\* ======================================================================
\* Properties
\* ======================================================================

\* C1: with workers = W >= 1, the number of process_identifier runs that have
\* started and not yet completed never exceeds W.
ConcurrencyBound == workers >= 1 => Cardinality(InFlight) <= workers

\* the pool is full while identifiers are still waiting
PoolFull == workers >= 1 /\ Cardinality(InFlight) = workers /\ it <= total

\* C2: no backoff call, in any interleaving, leaves RATE_GATE._until lower
\* than it was before the call.
DeadlineMonotone == [][until' >= until]_vars

\* a backoff call asked for an earlier deadline while a later one was pending
ShorterIgnored == shorter /\ until > now

\* C3: when schedule_fixed is over, every admitted position has been recorded
\* exactly once: done_cnt equals the number of started identifiers and none
\* of them is left without a result.
EveryAdmittedRecorded ==
    schedPc # "wait" =>
        /\ done_cnt = it - 1
        /\ \A t \in 1..(it - 1) : task[t].pc = "collected"

\* C4: admission is one-way.  The step that records a skip for
\* insufficient_disk_space leaves disk_full true; once disk_full is true it
\* stays true and no further identifier is taken from the iterator; the
\* completed count never exceeds the input length.
Recorded(t) == task[t].pc = "returned" /\ task'[t].pc = "collected"

AdmissionOneWay ==
    /\ [][/\ (\E t \in Positions : Recorded(t) /\ IsDiskSkip(task[t].result)) => disk_full'
          /\ disk_full => disk_full'
          /\ disk_full => it' = it /\ \A t \in Positions :
                                         task[t].pc = "idle" => task'[t].pc = "idle"]_vars
    /\ [](done_cnt <= total)

\* admission closed and the run ended with identifiers never started
ClosedEarly == disk_full /\ schedPc = "done" /\ done_cnt < total

\* C5: a worker starts a metadata request or a transfer only straight after
\* its own wait_if_needed returned, with no other suspension in between.
GateBeforeEachCall ==
    \A t \in Positions : task[t].pc \in {"fetch", "transfer"} => task[t].gateFresh

\* C6: a worker that was sleeping in wait_if_needed starts its next external
\* call only when the deadline in force, extended or not, has passed.
WaitersHonourExtension ==
    [][\A t \in Positions :
          task[t].pc \in {"gate", "meta_gate"} /\ task'[t].pc = "fetch" => until' <= now']_vars

\* C7: a wait_if_needed call reads a deadline at least as late as every
\* deadline a backoff call has set before it began.
BeginsWait(t) ==
    /\ task'[t] # task[t]
    /\ task[t].pc # "meta_gate"
    /\ task'[t].pc \in {"gate", "meta_gate", "fetch"}

DeadlineRead(t) == IF task'[t].pc = "fetch" THEN until' ELSE task'[t].wake

BackoffGlobal ==
    [][\A t \in Positions : BeginsWait(t) => DeadlineRead(t) >= hiDeadline']_vars

\* a worker on its first attempt sleeps until the deadline another worker set
SeesOthersBackoff ==
    \E t \in Positions :
        task[t].pc = "gate" /\ task[t].attempt = 1 /\ task[t].wake = hiDeadline
        /\ hiDeadline > now

\* C8: one process_identifier run makes at most 2 metadata requests and at
\* most 2 transfers.
RetryCeiling ==
    \A t \in Positions : task[t].metaCalls <= 2 /\ task[t].xferCalls <= 2

\* a run in its second transfer after its second metadata request
FourCalls ==
    \E t \in Positions :
        task[t].pc = "transfer" /\ task[t].metaCalls = 2 /\ task[t].xferCalls = 2

\* C9: no exception leaves process_identifier, so the scheduler never gets a
\* raised error from task.result().
NoErrorEscapes ==
    /\ \A t \in Positions : task[t].pc # "raised"
    /\ schedPc # "raised"

\* C10: if every started run returns, schedule_fixed terminates, and only
\* with nothing in flight; after admission closed the runs in flight are not
\* cancelled, and each one that is recorded adds one to done_cnt.
Drained == \A t \in Positions : task[t].pc \in {"idle", "collected"}

TerminatesDrained ==
    /\ <>(schedPc = "done")
    /\ [](schedPc = "done" => running = {} /\ Drained)
    /\ [][/\ \A t \in running : t \in running' \/ task'[t].pc = "collected"
          /\ \A t \in Positions : task'[t].pc # "cancelled"
          /\ done_cnt' = done_cnt + Cardinality({t \in Positions : Recorded(t)})]_vars

\* admission is closed and a run is still in flight
DrainingAfterClose ==
    disk_full /\ schedPc = "wait" /\ \E t \in running : task[t].pc = "stub"

\* the candidates of the file list under study, their positions by kind, and
\* the rule "largest size, the first one among equals" over a set of positions
Cs == Candidates(files)

VideoAt == {i \in DOMAIN Cs : Cs[i].ext \in VIDEO_EXTS}

AudioAt == {i \in DOMAIN Cs : Cs[i].ext \in AUDIO_EXTS}

LargestFirst(i, at) ==
    /\ i \in at
    /\ \A j \in at : /\ SizeKey(Cs[j]) <= SizeKey(Cs[i])
                     /\ j < i => SizeKey(Cs[j]) < SizeKey(Cs[i])

\* C14: mode audio, some candidate left by the filter.  Without an audio
\* candidate the result is the failure filtered_out_no_audio.  Otherwise it is
\* the largest (first among equals) candidate of the first extension of
\* .wav, .flac, .mp3, .ogg that any candidate has, whatever the sizes of the
\* others; without a preferred extension it is the largest audio candidate.
PrefOrder ==
    <<<<".", "w", "a", "v">>, <<".", "f", "l", "a", "c">>,
      <<".", "m", "p", "3">>, <<".", "o", "g", "g">>>>

PrefAt(k) == {i \in AudioAt : Cs[i].ext = PrefOrder[k]}

AudioPool ==
    IF \E k \in DOMAIN PrefOrder : PrefAt(k) # {}
    THEN PrefAt(CHOOSE k \in DOMAIN PrefOrder :
                    PrefAt(k) # {} /\ \A l \in 1..(k - 1) : PrefAt(l) = {})
    ELSE AudioAt

AudioPreference ==
    media_mode = "audio" /\ Cs # <<>> =>
        \A n \in DOMAIN picked :
            IF AudioAt = {}
            THEN picked[n] = Rejected("filtered_out_no_audio")
            ELSE \E i \in AudioPool :
                    LargestFirst(i, AudioPool) /\ picked[n] = Chosen(Cs[i])

\* a .flac was chosen although a larger .mp3 was there
SmallerFlacChosen ==
    /\ media_mode = "audio"
    /\ picked # <<>>
    /\ picked[1].best # <<>>
    /\ picked[1].best[1].ext = PrefOrder[2]
    /\ \E i \in AudioAt :
          Cs[i].ext = PrefOrder[3] /\ SizeKey(Cs[i]) > SizeKey(picked[1].best[1])

\* C15: mode video, some candidate left by the filter.  Without a video
\* candidate the result is the failure filtered_out_no_video; otherwise it is
\* the video candidate of the largest size, the first in the list among those
\* of equal largest size (an absent size counts as 0).
VideoLargestFirst ==
    media_mode = "video" /\ Cs # <<>> =>
        \A n \in DOMAIN picked :
            IF VideoAt = {}
            THEN picked[n] = Rejected("filtered_out_no_video")
            ELSE \E i \in VideoAt :
                    LargestFirst(i, VideoAt) /\ picked[n] = Chosen(Cs[i])

\* two different video files of equal size: the first one was chosen
VideoTieFirst ==
    /\ media_mode = "video"
    /\ picked # <<>>
    /\ Len(Cs) = 2
    /\ VideoAt = {1, 2}
    /\ Cs[1].name # Cs[2].name
    /\ Cs[1].size = Cs[2].size
    /\ picked[1] = Chosen(Cs[1])

\* C16: mode both, some candidate left by the filter.  With a video candidate
\* the result is what mode video returns; else with an audio candidate what
\* mode audio returns; else the failure no_video_or_audio.
BothPrefersVideo ==
    media_mode = "both" /\ Cs # <<>> =>
        \A n \in DOMAIN picked :
            picked[n] = IF VideoAt # {} THEN PickBestFile(files, "video")
                        ELSE IF AudioAt # {} THEN PickBestFile(files, "audio")
                        ELSE Rejected("no_video_or_audio")

\* no video: a .wav was chosen although a larger .flac was there
BothFallsBackToAudio ==
    /\ media_mode = "both"
    /\ picked # <<>>
    /\ VideoAt = {}
    /\ picked[1].best # <<>>
    /\ picked[1].best[1].ext = PrefOrder[1]
    /\ \E i \in AudioAt :
          Cs[i].ext = PrefOrder[2] /\ SizeKey(Cs[i]) > SizeKey(picked[1].best[1])

\* C17: an entry whose name is absent or empty, ends in "/", or has a
\* lowercased extension of the denylist is never returned; when every entry
\* is one of these the result is the failure no_candidate_files, in every
\* mode, and only then.
Unnamed(f) == f.name = NoName \/ f.name = <<>>

Directory(f) == ~Unnamed(f) /\ f.name[Len(f.name)] = "/"

Denied(f) == ~Unnamed(f) /\ ExtOf[f.name] \in DenyExts

Filtered(f) == Unnamed(f) \/ Directory(f) \/ Denied(f)

FilterRule ==
    \A n \in DOMAIN picked :
        /\ picked[n].best # <<>> =>
              \E i \in DOMAIN files :
                  ~Filtered(files[i]) /\ picked[n].best[1].name = files[i].name
        /\ picked[n].best # <<>> =>
              \A i \in DOMAIN files :
                  Filtered(files[i]) => picked[n].best[1].name # NameOf(files[i])
        /\ (\A i \in DOMAIN files : Filtered(files[i]))
              <=> picked[n] = Rejected("no_candidate_files")

\* a list of nothing but a file with a denied extension in capitals and a
\* directory was rejected
OnlyFilteredEntries ==
    /\ picked # <<>>
    /\ picked[1] = Rejected("no_candidate_files")
    /\ \E i \in DOMAIN files : Denied(files[i]) /\ Suffix(files[i].name) \notin DenyExts
    /\ \E i \in DOMAIN files : Directory(files[i])

EverySkipOrFailLogged ==
    \A t \in Positions :
        task[t].pc = "returned" =>
            IF task[t].result.status = "ok" THEN log = <<>>
            ELSE /\ Len(log) = 1
                 /\ log[1].kind = IF task[t].result.status = "skip" THEN "SKIP" ELSE "FAIL"

\* C12: in the step in which pick_best_file returned a candidate, a file at
\* the destination of exactly the candidate's known size makes the run return
\* skip without calling the transfer, and a candidate without a size makes the
\* run call the transfer.
LocalShortCircuit ==
    [][\A t \in Positions :
          /\ task[t].pc \in {"fetch", "cli"}
          /\ Len(picked') = Len(picked) + 1
          /\ picked'[Len(picked')].best # <<>>
          => LET sz == picked'[Len(picked')].best[1].size IN
             /\ onDisk # NoFile /\ sz # NoSize /\ onDisk = sz
                   => /\ task'[t].pc = "returned"
                      /\ task'[t].result.status = "skip"
             /\ sz = NoSize
                   => /\ task'[t].pc = "transfer"
                      /\ task'[t].xferCalls = task[t].xferCalls + 1]_vars

\* the run returned skip for a file that was there with the candidate's size
SkippedAsPresent ==
    /\ task[1].pc = "returned"
    /\ task[1].result.status = "skip"
    /\ picked # <<>>
    /\ picked[Len(picked)].best # <<>>
    /\ picked[Len(picked)].best[1].size = onDisk

\* C13: a run that found the metadata's file list empty returns a result with
\* status skip and reason no_files_in_metadata, having called neither
\* pick_best_file nor the transfer.
EmptyListSkipsWithReason ==
    \A t \in Positions :
        /\ task[t].pc = "returned"
        /\ files = <<>>
        /\ log = <<Row("SKIP", "no_files_in_metadata", "")>>
        => /\ Get(task[t].result, "status") = "skip"
           /\ Get(task[t].result, "reason") = "no_files_in_metadata"
           /\ picked = <<>>

\* C19: after any sequence of backoff calls RATE_GATE._until is the largest of
\* its initial value and the time.time() + seconds of every call.
DeadlineIsFurthest == until = furthest

\* after a call that set the deadline beyond the default backoff, a call that
\* proposed an earlier one
FurthestKept == until > DefaultBackoff /\ shorter

\* C20: while admission is open and identifiers are left, the scheduler never
\* waits with fewer tasks in its pool than min(workers, work not yet done).
PoolKeptFull ==
    schedPc = "wait" /\ ~disk_full /\ it <= total =>
        Cardinality(running) >= Min(workers, Cardinality(running) + total - it + 1)

\* a completion was recorded and replaced while identifiers are still left
PoolRefilled ==
    /\ schedPc = "wait"
    /\ ~disk_full
    /\ it <= total
    /\ done_cnt >= 1
    /\ Cardinality(running) = workers

\* C21: a recorded result that is a fail, or a skip for a reason other than
\* insufficient_disk_space, leaves disk_full as it was and does not end the
\* run with an error; with admission open, every such result is replaced by
\* the next identifier as long as there is one.
PlainResult(r) ==
    \/ Get(r, "status") = "fail"
    \/ Get(r, "status") = "skip" /\ Get(r, "reason") # "insufficient_disk_space"

FailureKeepsAdmission ==
    [][(\E t \in Positions : Recorded(t))
       /\ (\A t \in Positions : Recorded(t) => PlainResult(task[t].result))
       => /\ disk_full' = disk_full
          /\ schedPc' # "raised"
          /\ ~disk_full =>
                it' = Min(total + 1, it + Cardinality({t \in Positions : Recorded(t)}))]_vars

\* a fail is about to be recorded while admission is open and identifiers
\* are left
FailWithWorkLeft ==
    /\ schedPc = "wait"
    /\ ~disk_full
    /\ it <= total
    /\ done_cnt >= 1
    /\ \E t \in running : task[t].pc = "returned" /\ task[t].result.status = "fail"

\* C22: a run makes at most two attempts, and each step of the second attempt
\* either goes on within that attempt or ends the run with a result.
AtMostOneLoopBack ==
    /\ [](\A t \in Positions : task[t].attempt <= 2)
    /\ [][\A t \in Positions :
             task[t].attempt = 2 /\ task'[t] # task[t] /\ task'[t].pc # "cancelled"
             => \/ task'[t].attempt = 2
                \/ task'[t].pc = "returned"]_vars

\* C29: two runs in flight at the same time never have the same destination
\* directory out_root / identifier.
DestDir(t) == identifiers[t]

DisjointDestinations ==
    \A t1, t2 \in InFlight : t1 # t2 => DestDir(t1) # DestDir(t2)

\* C30: wait_if_needed leaves RATE_GATE._until alone; a wait that begins with
\* the deadline ahead sleeps until exactly that deadline, and one that begins
\* with the deadline passed returns at once.
EntersSleep(t) ==
    /\ task'[t].pc \in {"gate", "meta_gate"}
    /\ task'[t] # task[t]

WaitOnlyWaits ==
    [][\A t \in Positions :
          /\ task[t].pc \in {"jitter", "gate", "meta_gate"} /\ task'[t] # task[t]
                => until' = until
          /\ EntersSleep(t) => task'[t].wake = until' /\ until' > now'
          /\ task[t].pc \in {"jitter", "gate"} /\ task'[t].pc = "fetch"
                => until' <= now']_vars

\* a run slept in wait_if_needed and started its second request at the
\* deadline
WokeAtDeadline ==
    \E t \in Positions :
        task[t].pc = "fetch" /\ task[t].attempt = 2 /\ until > 0 /\ now = until

\* C23: the retry is one budget per run, shared by the two stages: a run loops
\* back only from attempt 1, so in attempt 2 neither a throttled metadata
\* request nor a throttled transfer starts another call; the calls of a run
\* never outnumber its attempts (at most 2 metadata requests, 2 transfers).
SharedRetryBudget ==
    /\ [](\A t \in Positions :
            /\ task[t].xferCalls <= task[t].metaCalls
            /\ task[t].metaCalls <= task[t].attempt
            /\ task[t].attempt <= 2)
    /\ [][\A t \in Positions :
            task[t].pc \in {"fetch", "cli", "transfer"} /\ task[t].attempt = 2
                /\ task'[t] # task[t] /\ task'[t].pc # "cancelled"
            => /\ task'[t].pc \in {"cli", "transfer", "returned", "raised"}
               /\ task'[t].pc \in {"cli", "transfer"} => task'[t].metaCalls = task[t].metaCalls]_vars

\* the metadata request was throttled and repeated, and the one transfer the
\* run can still make is under way
TransferAfterMetaRetry ==
    \E t \in Positions :
        /\ task[t].pc = "transfer"
        /\ task[t].attempt = 2
        /\ task[t].metaCalls = 2
        /\ task[t].xferCalls = 1

\* C23 as stated: the transfer stage has a retry of its own, so the first
\* transfer of a run never ends the run with a throttling error text, whatever
\* the metadata stage did before.
IndependentRetry ==
    [][\A t \in Positions :
          task[t].pc = "transfer" /\ task[t].xferCalls = 1 /\ log' # log
          => log'[Len(log')].reason \notin ThrottledReasons]_vars

\* the run of task t took a step that was not its cancellation
Stepped(t) == task'[t] # task[t] /\ task'[t].pc # "cancelled"

\* the run of task t went from attempt 1 to attempt 2 and waits at the gate
\* (or, the deadline having passed, is in its next metadata request)
LoopedBack(t) ==
    /\ task[t].attempt = 1
    /\ task'[t].attempt = 2
    /\ task'[t].pc \in {"gate", "fetch"}

\* the run of task t ended with a result of the given status
Ended(t, status) ==
    task'[t].pc = "returned" /\ task'[t].result.status = status

\* C24: when a metadata request finishes, a throttling error on attempt 1
\* extends the deadline by the numeric Retry-After hint, else by 90 seconds,
\* and the run loops back to the gate; every other error, and a throttling
\* error on attempt 2, ends the run with the result fail and no further
\* metadata request.
MetadataStageOutcomes ==
    [][\A t \in Positions :
          task[t].pc = "fetch" /\ Stepped(t)
          => \/ /\ LoopedBack(t)
                /\ \E h \in Headers :
                      until' = Max(until, now + (IF IsNumeral(h) THEN IntOf(h) ELSE DefaultBackoff))
             \/ /\ task'[t].pc \in {"cli", "transfer"}
                /\ task'[t].attempt = task[t].attempt
                /\ task'[t].metaCalls = task[t].metaCalls
                /\ until' = until
             \/ Ended(t, "skip") /\ until' = until
             \/ Ended(t, "fail")]_vars

\* C25: when a transfer finishes, success ends the run with ok and bytes equal
\* to the candidate's size (0 if unknown); a failure with a throttling text on
\* attempt 1 extends the deadline by 90 seconds and the run loops back to the
\* gate; any other failure ends the run with the result fail.
TransferStageOutcomes ==
    [][\A t \in Positions :
          task[t].pc = "transfer" /\ Stepped(t)
          => \/ /\ Ended(t, "ok")
                /\ task'[t].result.bytes = (IF task[t].sz = NoSize THEN 0 ELSE task[t].sz)
                /\ until' = until
             \/ /\ LoopedBack(t)
                /\ until' = Max(until, now + TransferBackoff)
             \/ Ended(t, "fail") /\ until' = until]_vars

\* C27: a run passes its stages in order only: the jitter sleep follows the
\* task's creation and nothing else, so it happens once per identifier; a gate
\* wait or metadata request is entered from the jitter, the gate or a loop
\* back; a transfer starts only in the step in which, in the same attempt, the
\* metadata arrived, pick_best_file returned a candidate and the file at the
\* destination did not match the candidate's size.
StageOrder ==
    [][\A t \in Positions :
          Stepped(t) /\ task'[t].pc # task[t].pc
          => /\ task'[t].pc = "created" => task[t].pc = "idle"
             /\ task'[t].pc = "jitter" => task[t].pc = "created"
             /\ task'[t].pc = "gate" =>
                    \/ task[t].pc = "jitter" /\ task'[t].attempt = 1
                    \/ task[t].pc \in {"fetch", "transfer"} /\ LoopedBack(t)
             /\ task'[t].pc = "fetch" =>
                    \/ task[t].pc = "jitter" /\ task'[t].attempt = 1
                    \/ task[t].pc = "gate" /\ task'[t].attempt = task[t].attempt
                    \/ task[t].pc = "transfer" /\ LoopedBack(t)
             /\ task'[t].pc = "cli" => task[t].pc = "fetch" /\ task'[t].attempt = task[t].attempt
             /\ task'[t].pc = "transfer" =>
                    /\ task[t].pc \in {"fetch", "cli"}
                    /\ task'[t].attempt = task[t].attempt
                    /\ Len(picked') = Len(picked) + 1
                    /\ picked'[Len(picked')].best # <<>>
                    /\ task'[t].sz = picked'[Len(picked')].best[1].size
                    /\ ~LocalAlreadyOk(onDisk, task'[t].sz)
             /\ task'[t].pc \in {"returned", "raised"} => task[t].pc \in {"fetch", "cli", "transfer"}]_vars

\* the second attempt of a run reached its transfer: both attempts selected a
\* file, and the jitter sleep was not repeated
SecondAttemptTransfer ==
    \E t \in Positions :
        /\ task[t].pc = "transfer"
        /\ task[t].attempt = 2
        /\ Len(picked) = 2

\* C28: when every collaborator call returns, a process_identifier run that
\* has started ends with a result whose status is ok, skip or fail.
RunTerminates ==
    \A t \in Positions :
        task[t].pc = "jitter"
        ~> (task[t].pc = "returned" /\ task[t].result.status \in {"ok", "skip", "fail"})

\* the throttling indicators the transfer collaborator's messages are searched for
Indicators ==
    {<<"4", "2", "9">>,
     <<"t", "o", "o", " ", "m", "a", "n", "y", " ", "r", "e", "q", "u", "e", "s", "t", "s">>,
     <<"5", "0", "3">>,
     <<"s", "l", "o", "w", "d", "o", "w", "n">>,
     <<"s", "e", "r", "v", "i", "c", "e", " ", "t", "e", "m", "p", "o", "r", "a", "r", "i", "l", "y", " ", "u", "n", "a", "v", "a", "i", "l", "a", "b", "l", "e">>}

\* the letter ch without its case
Fold(ch) ==
    CASE ch = "a" -> "A" [] ch = "b" -> "B" [] ch = "c" -> "C" [] ch = "d" -> "D"
      [] ch = "e" -> "E" [] ch = "f" -> "F" [] ch = "g" -> "G" [] ch = "h" -> "H"
      [] ch = "i" -> "I" [] ch = "j" -> "J" [] ch = "k" -> "K" [] ch = "l" -> "L"
      [] ch = "m" -> "M" [] ch = "n" -> "N" [] ch = "o" -> "O" [] ch = "p" -> "P"
      [] ch = "q" -> "Q" [] ch = "r" -> "R" [] ch = "s" -> "S" [] ch = "t" -> "T"
      [] ch = "u" -> "U" [] ch = "v" -> "V" [] ch = "w" -> "W" [] ch = "x" -> "X"
      [] ch = "y" -> "Y" [] ch = "z" -> "Z"
      [] OTHER -> ch

\* the indicator ind stands in the text at position i, whatever the case of
\* the text's letters
StandsAt(text, ind, i) ==
    /\ i + Len(ind) - 1 <= Len(text)
    /\ \A k \in 1..Len(ind) : Fold(text[i + k - 1]) = Fold(ind[k])

NamesIndicator(text) ==
    \E ind \in Indicators : \E i \in 1..Len(text) : StandsAt(text, ind, i)

\* C26: rate_limited_errtext returns the 90-second backoff if and only if the
\* message contains, in any case of its letters, one of "429", "too many
\* requests", "503", "slowdown", "service temporarily unavailable"; otherwise
\* it returns None.
ClassifiesThrottling ==
    classified # <<>> =>
        classified[1] = (IF NamesIndicator(errText) THEN 90 ELSE NoneBack)

\* a message that names an indicator only with capitals in it was classified
\* as throttling
CapitalsClassified ==
    /\ classified = <<90>>
    /\ \A ind \in Indicators : ~Contains(errText, ind)

\* the entries of the file list the filter keeps, in order: Cs[i] is made from
\* Kept[i]
Kept == SelectSeq(files, IsCandidate)

\* the size of the entry is a numeral
Sized(f) == f.size \in {"0", "7", "8"}

\* the size the entry is compared by
Rank(f) == IF f.size = "7" THEN 7 ELSE IF f.size = "8" THEN 8 ELSE 0

\* the candidates the returned file is the largest of
ChosenPool ==
    IF media_mode = "video" \/ (media_mode = "both" /\ VideoAt # {})
    THEN VideoAt
    ELSE AudioPool

\* process_identifier's locals once the candidate c is chosen
WithCandidate(c) == [Ctx(1) EXCEPT !.tr.sz = c.size]

\* C31: a returned candidate is one of its pool that no other outranks, an
\* entry whose size is absent or not a numeral ranking as 0; its size is the
\* entry's number, and is absent (not 0) when the entry's size is absent or
\* not a numeral.  For such a candidate the worker's local-copy check fails
\* whatever is on disk, and a successful transfer reports 0 bytes.
AbsentSizeRanksZero ==
    \A n \in DOMAIN picked :
        picked[n].best # <<>> =>
            LET best == picked[n].best[1] IN
            /\ \E i \in ChosenPool :
                  /\ best.name = Kept[i].name
                  /\ \A j \in ChosenPool : Rank(Kept[j]) <= Rank(Kept[i])
                  /\ best.size = (IF Sized(Kept[i]) THEN Rank(Kept[i]) ELSE NoSize)
            /\ best.size = NoSize =>
                  /\ \A d \in LocalSizes : ~LocalAlreadyOk(d, best.size)
                  /\ AfterTransfer(WithCandidate(best), TRUE, <<>>, FALSE, FALSE).tr.result.bytes = 0

\* of two candidates compared, the first has no usable size and the second a
\* size that is not a numeral: the first was returned, its size still absent
UnsizedReturned ==
    /\ picked # <<>>
    /\ picked[1].best # <<>>
    /\ picked[1].best[1].size = NoSize
    /\ Len(Kept) = 2
    /\ ChosenPool = {1, 2}
    /\ Kept[1].name # Kept[2].name
    /\ Kept[2].size = "abc"
    /\ picked[1].best[1].name = Kept[1].name

\* the deadline the call calls[i] proposed
Proposed(i) == calls[i].at + calls[i].seconds

\* C32, as amended: after any sequence of backoff calls the deadline is the
\* largest time.time() + seconds any of the calls proposed, that is the
\* proposal of the call whose sum, not whose seconds, is the largest.
DeadlineIsLargestProposal ==
    calls # <<>> =>
        \E k \in DOMAIN calls :
            /\ until = Proposed(k)
            /\ \A i \in DOMAIN calls : Proposed(i) <= Proposed(k)

\* a later call with fewer seconds decided the deadline
LaterSmallerDecides ==
    /\ Len(calls) = 2
    /\ calls[2].seconds < calls[1].seconds
    /\ Proposed(2) > Proposed(1)
    /\ until = Proposed(2)

\* C32 as stated: the deadline is time.time() + seconds of the call that
\* passed the largest seconds.
DeadlineIsNowPlusMaxSeconds ==
    calls # <<>> =>
        \E k \in DOMAIN calls :
            /\ \A i \in DOMAIN calls : calls[i].seconds <= calls[k].seconds
            /\ until = Proposed(k)

\* the input positions whose task has been created
Started == {t \in Positions : task[t].pc # "idle"}

\* C33: the identifiers are admitted in input order: the started ones are a
\* prefix of the input list, the ones never started a suffix of it.
StartedIsPrefix ==
    /\ it <= total + 1
    /\ Started = 1..(it - 1)

\* admission closed early: the run is over, the first identifier was started
\* and the last one never
SuffixNeverStarted ==
    /\ disk_full
    /\ schedPc = "done"
    /\ total >= 2
    /\ 1 \in Started
    /\ total \notin Started

\* C34: no result of process_identifier has a reason, so with the real worker
\* disk_full is never set and admission never closes; with workers >= 1 the
\* scheduler ends only when every identifier of the input has been started
\* and recorded.
DiskFlagNeverSet ==
    /\ \A t \in Positions :
          task[t].pc = "returned" => DOMAIN task[t].result = {"status", "bytes"}
    /\ ~disk_full
    /\ disk_space_skips = 0
    /\ workers >= 1 /\ schedPc # "wait" => Started = 1..total /\ done_cnt = total

\* the tasks asyncio.wait would return now
DoneNow == {t \in running : Finished(t)}

\* the scheduler's state after each task of the for loop over DoneNow, in any
\* order of the set, with the number of tasks the loop has still to handle
LoopStates ==
    {[s |-> HandleDone(SubSeq(order, 1, k),
                       [it |-> it, running |-> running \ DoneNow, done_cnt |-> done_cnt,
                        disk_space_skips |-> disk_space_skips, disk_full |-> disk_full,
                        doneAtClose |-> doneAtClose,
                        created |-> {}, collected |-> {}, raised |-> FALSE]),
      left |-> Cardinality(DoneNow) - k] :
        order \in Orders(DoneNow), k \in 0..Cardinality(DoneNow)}

\* C35: once admission is closed, the results recorded after the one that
\* closed it, together with the runs still in flight, number at most
\* workers - 1; so the final completed count is at most the count at closing
\* plus workers - 1.
FewResultsAfterClose ==
    /\ disk_full =>
          /\ workers >= 1
          /\ doneAtClose >= 1
          /\ done_cnt + Cardinality(running) <= doneAtClose + workers - 1
          /\ schedPc = "done" => done_cnt <= doneAtClose + workers - 1
    /\ schedPc = "wait" =>
          \A l \in LoopStates :
              l.s.disk_full =>
                  l.s.done_cnt + l.left + Cardinality(l.s.running)
                      <= l.s.doneAtClose + workers - 1

\* the run ended with one more result recorded after the closing one, the
\* most two workers allow
OneMoreAfterClose ==
    /\ disk_full
    /\ schedPc = "done"
    /\ workers = 2
    /\ done_cnt = doneAtClose + 1

\* C40: disk_full is true exactly when a disk-space skip has been counted, and
\* disk_space_skips <= done_cnt <= total.
FlagMatchesCounter ==
    /\ disk_full <=> disk_space_skips > 0
    /\ disk_space_skips <= done_cnt
    /\ done_cnt <= total
    /\ schedPc = "wait" =>
          \A l \in LoopStates :
              /\ l.s.disk_full <=> l.s.disk_space_skips > 0
              /\ l.s.disk_space_skips <= l.s.done_cnt
              /\ l.s.done_cnt <= total

\* two disk-space skips were counted, the second after admission had closed
SecondSkipCounted == disk_full /\ disk_space_skips = 2 /\ schedPc = "done"

\* the throttling responses a metadata request may get
ThrottlingErrors == {e \in HttpErrors : Throttled(e.code)}

\* the seconds a response asks for
Asked(e) == IF IsNumeral(e.header) THEN IntOf(e.header) ELSE 90

\* C36: whatever the attempt, a throttling response to a metadata request
\* makes the code call backoff, so that the deadline is afterwards at least
\* time.time() plus the seconds asked for: once, in ia_metadata, on attempt 2,
\* and twice with the same seconds (ia_metadata, then the worker) on attempt 1,
\* the later call's proposal being the deadline unless the deadline in force
\* was further.
ThrottleAlwaysExtends ==
    \A t \in Positions :
        task[t].pc = "fetch" =>
            \A e \in ThrottlingErrors :
                LET r == MetadataHttpError(Resumed(t), e.code, e.header, e.logRaises)
                    n == Len(r.backs)
                IN /\ n = (IF task[t].attempt = 1 THEN 2 ELSE 1)
                   /\ \A i \in 1..n : r.backs[i] = [at |-> now, seconds |-> Asked(e)]
                   /\ r.until = Max(until, r.backs[n].at + r.backs[n].seconds)
                   /\ task[t].attempt = 2 => r.tr.pc \in {"returned", "raised"}

\* the second metadata request of a run was throttled: the run failed with
\* the row of the HTTP error, and the deadline was set anew at that moment
ExtendedOnSecondAttempt ==
    /\ log # <<>>
    /\ log[Len(log)].reason \in {"metadata_http_429", "metadata_http_503"}
    /\ now >= 1
    /\ until = now + DefaultBackoff

\* the run of task t is in its second metadata request, its first transfer
\* having been throttled
Refetching(t) ==
    task[t].pc = "fetch" /\ task[t].attempt = 2 /\ task[t].xferCalls = 1

\* what the second attempt does with the response i
Second(t, i) == Proceed(Resumed(t), i.m, i.localSize, i.log[1], i.log[2])

\* C37: a throttled transfer sends the run back to the gate and to a new
\* metadata request, never straight to another transfer.  What the second
\* attempt does is decided by the second response alone: it transfers the
\* candidate of that response (which may differ from the first attempt's) if
\* the local copy does not match it, and may instead end in skip, or in fail
\* when the second metadata request fails.
RetryRestartsAttempt ==
    /\ [][\A t \in Positions :
            task[t].pc = "transfer" /\ Stepped(t) /\ task'[t].pc \notin {"returned", "raised"}
            => /\ LoopedBack(t)
               /\ task'[t].xferCalls = task[t].xferCalls
               /\ task'[t].metaCalls
                     = task[t].metaCalls + (IF task'[t].pc = "fetch" THEN 1 ELSE 0)]_vars
    /\ [](\A t \in Positions :
            /\ task[t].pc = "transfer" /\ task[t].attempt = 2 =>
                  task[t].metaCalls = 2
            /\ Refetching(t) =>
                  /\ \A i \in ProceedInputs :
                        Second(t, i).tr.pc = "transfer"
                        <=> i.m.shape = "best" /\ ~LocalAlreadyOk(i.localSize, i.m.size)
                  /\ \A i \in ProceedInputs :
                        Second(t, i).tr.pc = "transfer" =>
                            /\ Second(t, i).tr.sz = i.m.size
                            /\ Second(t, i).tr.xferCalls = 2
                  /\ \E i \in ProceedInputs :
                        Second(t, i).tr.pc = "transfer" /\ Second(t, i).tr.sz # task[t].sz
                  /\ \E i \in ProceedInputs :
                        /\ Second(t, i).tr.pc = "returned"
                        /\ Second(t, i).tr.result.status = "skip"
                  /\ \E e \in HttpErrors :
                        LET r == MetadataHttpError(Resumed(t), e.code, e.header, e.logRaises)
                        IN r.tr.pc = "returned" /\ r.tr.result.status = "fail")

\* after a throttled transfer of a file of known size the run is fetching the
\* metadata again
RefetchAfterThrottledTransfer ==
    \E t \in Positions : Refetching(t) /\ task[t].sz # NoSize

\* the step outcome r made no backoff call and left the deadline as it was
GateUntouched(r) == r.backs = <<>> /\ r.until = until

\* C38: a failure that is not a throttling one never calls backoff and leaves
\* the deadline as it was: an HTTP error other than 429 and 503, any other
\* exception, an empty file list, a selector failure, a local-copy skip, and
\* a failed transfer whose error text names no indicator.  The deadline
\* changes only in the step of a run that handles a throttling failure.
NonThrottlingLeavesGate ==
    /\ [](\A t \in Positions :
            /\ task[t].pc = "fetch" =>
                  /\ \A e \in HttpErrors :
                        e.code \notin {429, 503} =>
                            GateUntouched(MetadataHttpError(Resumed(t), e.code, e.header, e.logRaises))
                  /\ \A i \in ProceedInputs :
                        GateUntouched(Proceed(Resumed(t), i.m, i.localSize, i.log[1], i.log[2]))
            /\ task[t].pc = "cli" =>
                  \A r \in CliOutcomes(Resumed(t)) : GateUntouched(r)
            /\ task[t].pc = "transfer" =>
                  /\ \A f \in TransferFailures :
                        ~NamesIndicator(f.err) =>
                            GateUntouched(AfterTransfer(Resumed(t), FALSE, f.err, f.log[1], f.log[2]))
                  /\ \A b \in BOOLEAN : GateUntouched(GenericHandler(Resumed(t), b)))
    /\ [][until' # until =>
            \E t \in Positions :
                /\ Stepped(t)
                /\ \/ LoopedBack(t)
                   \/ /\ task[t].pc = "fetch"
                      /\ task[t].attempt = 2
                      /\ task'[t].pc \in {"returned", "raised"}]_vars

\* a run failed and no backoff call has ever been made
FailedWithoutBackoff ==
    /\ \E t \in Positions : task[t].pc = "returned" /\ task[t].result.status = "fail"
    /\ until = 0
    /\ furthest = 0

\* C39: called with workers <= 0 and a non-empty identifier list,
\* schedule_fixed starts no task although the semaphore has one permit; the
\* loop over running is skipped and the scheduler ends at once with no result
\* recorded, reporting that all items were processed.
NoWorkersNoWork ==
    workers <= 0 /\ total > 0 =>
        /\ sem = 1
        /\ Started = {}
        /\ running = {}
        /\ it = 1
        /\ done_cnt = 0
        /\ schedPc = "done"
        /\ Report = "all_items_processed"

\* a negative number of workers and two identifiers: the scheduler is done
NegativeWorkersDone ==
    workers < 0 /\ total = 2 /\ schedPc = "done" /\ done_cnt = 0

====
